---- MODULE Spec2Model ----
\* A model of lab7.cpp: vectors of doubles (dvec), their dot product and angle,
\* ingestion of vectors from a text stream, enumeration of the unique pairs and
\* the sort of the pairs by angle, and the run of main over them.
\*
\* Numbers: vector elements are small integers.  An angle acos(d / (|a| |b|)) is
\* kept as the pair (d, |a|^2 |b|^2) and two angles are compared in exact
\* arithmetic (acos is decreasing, so the angles order as the cosines do in
\* reverse); the quotient 0/0 of a zero vector is the not-a-number.
EXTENDS Integers, Sequences, FiniteSets, TLC

\* ---- bounds of the model
MaxDim == 2      \* longest vector handed to a library call
MaxVecs == 3     \* most vectors handed to a library call
MaxLines == 3    \* most lines main reads from its input file

\* ---- values
Vals == {0, 1}
WideVals == {-1, 0, 1, 2}

VecsOver(S, d) == UNION {[1..n -> S] : n \in 0..d}
SeqsUpTo(S, m) == UNION {[1..n -> S] : n \in 0..m}

\* a token of a line: a number the stream extraction parses, or one it does not
Num(v) == [num |-> TRUE, val |-> v]
Junk == [num |-> FALSE, val |-> 0]
Tokens == {Num(v) : v \in Vals} \cup {Junk}
\* the lines getline can deliver: up to two tokens each (a blank line has none)
Lines == UNION {[1..n -> Tokens] : n \in 0..2}

\* ---- exceptions
NoError == [kind |-> "none", what |-> ""]
MismatchedDvec == [kind |-> "logic_error", what |-> "mismatched dvec dimensions"]
MismatchedInputAsLogicError ==
    [kind |-> "logic_error", what |-> "mismatched input vector dimensions"]
MismatchedInput ==
    [kind |-> "runtime_error", what |-> "mismatched input vector dimensions"]
NoInputFile == [kind |-> "runtime_error", what |-> "no input file"]

Ok(v) == [exc |-> NoError, val |-> v]
Thrown(e) == [exc |-> e, val |-> <<>>]

\* ---- dvec
\* assert_compatible: the exception it throws, NoError when it returns
assert_compatible(a, b) == IF Len(a) # Len(b) THEN MismatchedDvec ELSE NoError

RECURSIVE dot_loop(_, _, _, _)
dot_loop(a, b, i, acc) ==
    IF i > Len(a) THEN acc ELSE dot_loop(a, b, i + 1, acc + a[i] * b[i])

RECURSIVE zip_loop(_, _, _, _)
zip_loop(a, b, i, acc) ==
    IF i > Len(a) \/ i > Len(b) THEN acc
    ELSE zip_loop(a, b, i + 1, acc + a[i] * b[i])

\* dot without its compatibility check: the zip stops at the shorter vector
dot_unchecked(a, b) == Ok(zip_loop(a, b, 1, 0))

dot(a, b) ==
    IF assert_compatible(a, b) # NoError THEN Thrown(assert_compatible(a, b))
    ELSE Ok(dot_loop(a, b, 1, 0))

\* norm() squared: dot(*this, *this)
norm2(a) == dot(a, a).val

\* an angle: acos(num / sqrt(den)); not-a-number when den = 0 (then num = 0)
Angle(n, d) == [num |-> n, den |-> d]
IsNaN(t) == t.den = 0

theta(a, b) ==
    IF assert_compatible(a, b) # NoError THEN Thrown(assert_compatible(a, b))
    ELSE Ok(Angle(dot(a, b).val, norm2(a) * norm2(b)))

\* cos x > cos y for two angles that are numbers
CosGreater(x, y) ==
    IF x.num >= 0 /\ y.num < 0 THEN TRUE
    ELSE IF x.num < 0 /\ y.num >= 0 THEN FALSE
    ELSE IF x.num >= 0 THEN x.num * x.num * y.den > y.num * y.num * x.den
    ELSE x.num * x.num * y.den < y.num * y.num * x.den

\* the comparisons of doubles: every comparison with a not-a-number is false
ThetaLess(x, y) == ~IsNaN(x) /\ ~IsNaN(y) /\ CosGreater(x, y)
ThetaEq(x, y) == ~IsNaN(x) /\ ~IsNaN(y) /\ ~CosGreater(x, y) /\ ~CosGreater(y, x)
ThetaLeq(x, y) == ThetaLess(x, y) \/ ThetaEq(x, y)

\* ---- ingest_dvecs
\* an extraction that steps over what it cannot parse
RECURSIVE ReadDoublesSkippingJunk(_)
ReadDoublesSkippingJunk(toks) ==
    IF toks = <<>> THEN <<>>
    ELSE IF ~Head(toks).num THEN ReadDoublesSkippingJunk(Tail(toks))
    ELSE <<Head(toks).val>> \o ReadDoublesSkippingJunk(Tail(toks))

\* istream_iterator<double>: the numbers up to the first failed extraction
RECURSIVE ReadDoubles(_)
ReadDoubles(toks) ==
    IF toks = <<>> \/ ~Head(toks).num THEN <<>>
    ELSE <<Head(toks).val>> \o ReadDoubles(Tail(toks))

\* the check of line 122, never made
DimensionCheckSkipped(out, v) == FALSE

\* the check of line 122, made from the third line on
DimensionCheckLate(out, v) == Len(out) > 1 /\ Len(out[1]) # Len(v)

\* the check of line 122
DimensionMismatch(out, v) == out # <<>> /\ Len(out[1]) # Len(v)


\* ---- pairwise_elts
\* the positions (it, it2) the two loops visit, in the order they visit them
RECURSIVE inner_loop(_, _, _, _)
inner_loop(n, it, it2, acc) ==
    IF it2 > n THEN acc ELSE inner_loop(n, it, it2 + 1, Append(acc, <<it, it2>>))

RECURSIVE outer_loop(_, _, _, _)
outer_loop(n, it, first, acc) ==
    IF it > n THEN acc
    ELSE outer_loop(n, it + 1, first, inner_loop(n, it, it + first, acc))

\* the inner loop started at it instead of it + 1
pairwise_positions_from_it(n) == outer_loop(n, 1, 0, <<>>)

\* the inner loop started at it + 2
pairwise_positions_skip(n) == outer_loop(n, 1, 2, <<>>)

pairwise_positions(n) == outer_loop(n, 1, 1, <<>>)

\* pairs.push_back({*it, *it2}) at every position visited
pairwise_elts(vecs) ==
    LET pos == pairwise_positions(Len(vecs))
    IN  [k \in 1..Len(pos) |-> <<vecs[pos[k][1]], vecs[pos[k][2]]>>]

\* ---- theta_sort
\* the comparator of line 150, on the angles of two pairs
\* std::sort asks of it a strict weak ordering of the elements it sorts
StrictWeakOrdering(keys) ==
    LET n == Len(keys)
        lt(i, j) == ThetaLess(keys[i], keys[j])
        eqv(i, j) == ~lt(i, j) /\ ~lt(j, i)
    IN  /\ \A i \in 1..n : ~lt(i, i)
        /\ \A i, j, k \in 1..n : lt(i, j) /\ lt(j, k) => lt(i, k)
        /\ \A i, j, k \in 1..n : eqv(i, j) /\ eqv(j, k) => eqv(i, k)

\* the orders p of the elements that are sorted with respect to the comparator
SortedOrders(keys) ==
    LET n == Len(keys)
    IN  {p \in Permutations(1..n) :
            \A i, j \in 1..n : i < j => ~ThetaLess(keys[p[j]], keys[p[i]])}

\* a sort that loses the last element to a copy of the first
std_sort_lossy(pairs, keys) ==
    IF Len(pairs) < 2 THEN {pairs}
    ELSE {[k \in 1..Len(pairs) |->
              IF k = Len(pairs) THEN pairs[p[1]] ELSE pairs[p[k]]] :
              p \in SortedOrders(keys)}

\* std::sort: some order sorted with respect to the comparator, equivalent
\* elements in any order; the behaviour is undefined when the comparator is no
\* strict weak ordering of the elements, and then the elements come out in some
\* order
std_sort(pairs, keys) ==
    IF Len(pairs) < 2 THEN {pairs}
    ELSE LET orders == IF StrictWeakOrdering(keys) THEN SortedOrders(keys)
                       ELSE Permutations(1..Len(pairs))
         IN  {[k \in 1..Len(pairs) |-> pairs[p[k]]] : p \in orders}

\* the results theta_sort can return: the comparator throws out of the sort when
\* a pair it is called on has vectors of two lengths (a sort of fewer than two
\* elements never calls it)
theta_sort(vecs) ==
    LET pairs == pairwise_elts(vecs)
        n == Len(pairs)
    IN  IF n >= 2 /\ \E k \in 1..n : theta(pairs[k][1], pairs[k][2]).exc # NoError
        THEN {Thrown(MismatchedDvec)}
        ELSE LET keys == [k \in 1..n |-> theta(pairs[k][1], pairs[k][2]).val]
             IN  {Ok(s) : s \in std_sort(pairs, keys)}


\* ---- state
VARIABLES
    pc,        \* main: "open", "ingest", "sort", "print", "done", "aborted"
    consumed,  \* the lines getline has delivered so far, in order
    output,    \* ingest_dvecs' output
    vecs,      \* main's vecs, once ingest_dvecs has returned
    vecpairs,  \* main's vecpairs, once theta_sort has returned
    printed,   \* the result lines written to std::cout
    err,       \* the exception that ended the run, NoError while none has
    log,       \* the stages the run has entered, in order
    args,      \* a library call: the vectors it is made on
    call,      \* a library call: the function called last
    ret        \* a library call: what it returned or threw

vars == <<pc, consumed, output, vecs, vecpairs, printed, err, log, args, call, ret>>
mainVars == <<consumed, output, vecs, vecpairs, printed, err, log>>
callVars == <<args, call, ret>>

\* ---- main
Init ==
    /\ pc = "open"
    /\ consumed = <<>>
    /\ output = <<>>
    /\ vecs = <<>>
    /\ vecpairs = <<>>
    /\ printed = <<>>
    /\ err = NoError
    /\ log = <<"open">>
    /\ args = <<>>
    /\ call = "none"
    /\ ret = Ok(<<>>)

\* an exception nothing catches ends the run
Abort(e) ==
    /\ err' = e
    /\ pc' = "aborted"
    /\ log' = Append(log, "aborted")

Enter(stage) ==
    /\ pc' = stage
    /\ log' = Append(log, stage)

OpenFile ==
    /\ pc = "open"
    /\ Enter("ingest")
    /\ UNCHANGED <<consumed, output, vecs, vecpairs, printed, err, callVars>>

OpenFails ==
    /\ pc = "open"
    /\ Abort(NoInputFile)
    /\ UNCHANGED <<consumed, output, vecs, vecpairs, printed, callVars>>

\* one turn of ingest_dvecs' loop: getline delivers a line
IngestLine ==
    /\ pc = "ingest"
    /\ Len(consumed) < MaxLines
    /\ \E l \in Lines :
          LET v == ReadDoubles(l)
          IN  /\ consumed' = Append(consumed, l)
              /\ IF DimensionMismatch(output, v)
                 THEN Abort(MismatchedInput) /\ UNCHANGED output
                 ELSE output' = Append(output, v) /\ UNCHANGED <<pc, err, log>>
    /\ UNCHANGED <<vecs, vecpairs, printed, callVars>>

\* getline finds the end of the input: ingest_dvecs returns output
IngestReturn ==
    /\ pc = "ingest"
    /\ vecs' = output
    /\ Enter("sort")
    /\ UNCHANGED <<consumed, output, vecpairs, printed, err, callVars>>

ThetaSort ==
    /\ pc = "sort"
    /\ \E r \in theta_sort(vecs) :
          IF r.exc # NoError
          THEN Abort(r.exc) /\ UNCHANGED vecpairs
          ELSE vecpairs' = r.val /\ Enter("print") /\ UNCHANGED err
    /\ UNCHANGED <<consumed, output, vecs, printed, callVars>>

\* one turn of main's loop over vecpairs
PrintLine ==
    /\ pc = "print"
    /\ Len(printed) < Len(vecpairs)
    /\ LET p == vecpairs[Len(printed) + 1]
           t == theta(p[1], p[2])
       IN  IF t.exc # NoError
           THEN Abort(t.exc) /\ UNCHANGED printed
           ELSE /\ printed' = Append(printed, <<p[1], p[2], t.val>>)
                /\ UNCHANGED <<pc, err, log>>
    /\ UNCHANGED <<consumed, output, vecs, vecpairs, callVars>>

MainReturn ==
    /\ pc = "print"
    /\ Len(printed) = Len(vecpairs)
    /\ Enter("done")
    /\ UNCHANGED <<consumed, output, vecs, vecpairs, printed, err, callVars>>

Next ==
    \/ OpenFile
    \/ OpenFails
    \/ IngestLine
    \/ IngestReturn
    \/ ThetaSort
    \/ PrintLine
    \/ MainReturn

Spec == Init /\ [][Next]_vars

\* ---- library calls, as the tests make them
UnitInit ==
    /\ pc = "unit"
    /\ consumed = <<>>
    /\ output = <<>>
    /\ vecs = <<>>
    /\ vecpairs = <<>>
    /\ printed = <<>>
    /\ err = NoError
    /\ log = <<>>
    /\ args \in SeqsUpTo(VecsOver(Vals, MaxDim), MaxVecs)
                  \cup [1..2 -> VecsOver(WideVals, MaxDim)]
    /\ call = "none"
    /\ ret = Ok(<<>>)

CallDot ==
    /\ pc = "unit"
    /\ Len(args) >= 2
    /\ call' = "dot"
    /\ ret' = dot(args[1], args[2])
    /\ UNCHANGED <<pc, mainVars, args>>

CallTheta ==
    /\ pc = "unit"
    /\ Len(args) >= 2
    /\ call' = "theta"
    /\ ret' = theta(args[1], args[2])
    /\ UNCHANGED <<pc, mainVars, args>>

CallPairwiseElts ==
    /\ pc = "unit"
    /\ call' = "pairwise_elts"
    /\ ret' = [exc |-> NoError, val |-> pairwise_elts(args),
               pos |-> pairwise_positions(Len(args))]
    /\ UNCHANGED <<pc, mainVars, args>>

UnitNext ==
    \/ CallDot
    \/ CallTheta
    \/ CallPairwiseElts

UnitSpec == UnitInit /\ [][UnitNext]_vars


\* ---- properties
Range(s) == {s[k] : k \in 1..Len(s)}
Count(s, x) == Cardinality({k \in 1..Len(s) : s[k] = x})
SameLength(s) == \A i, j \in 1..Len(s) : Len(s[i]) = Len(s[j])
Choose2(n) == (n * (n - 1)) \div 2
\* ingest_dvecs has returned to main
Returned == \E k \in 1..Len(log) : log[k] = "sort"
\* ingest_dvecs has thrown
IngestThrew == log = <<"open", "ingest", "aborted">>
\* the vectors the lines consumed parse to
Parsed == [k \in 1..Len(consumed) |-> ReadDoubles(consumed[k])]
ThetaOf(p) == theta(p[1], p[2]).val

\* C1: ingest_dvecs returns vectors that all have one length, or throws its
\* dimension error: whenever two of the lines read give vectors of two lengths
\* it has thrown and returned nothing, and what it returns (and what it holds
\* while it reads) never has vectors of two lengths.
IngestSameDimension ==
    /\ SameLength(output)
    /\ SameLength(vecs)
    /\ ~SameLength(Parsed) => IngestThrew /\ err = MismatchedInput /\ ~Returned
    /\ IngestThrew => ~SameLength(Parsed)

IngestSameDimensionWitness ==
    /\ pc = "sort"
    /\ Len(vecs) >= 3
    /\ Len(vecs[1]) = 2
    /\ vecs[1] # vecs[2]

\* C2: pairwise_elts visits exactly the positions (i, j) with i < j, each once,
\* in lexicographic order, and returns the pair (vecs[i], vecs[j]) for each:
\* N*(N-1)/2 entries, none from one position twice.
LexLess(p, q) == p[1] < q[1] \/ (p[1] = q[1] /\ p[2] < q[2])

PairwiseEltsEnumerates ==
    call = "pairwise_elts" =>
        LET n == Len(args)
            m == Len(ret.val)
        IN  /\ ret.exc = NoError
            /\ m = Choose2(n)
            /\ Len(ret.pos) = m
            /\ Range(ret.pos) = {<<i, j>> : i, j \in 1..n} \cap {q \in (1..n) \X (1..n) : q[1] < q[2]}
            /\ \A k, l \in 1..m : k < l => LexLess(ret.pos[k], ret.pos[l])
            /\ \A k \in 1..m : ret.val[k] = <<args[ret.pos[k][1]], args[ret.pos[k][2]]>>

PairwiseEltsEnumeratesWitness ==
    /\ call = "pairwise_elts"
    /\ Len(args) = 3
    /\ Len(ret.val) = 3
    /\ ret.val[2] = <<args[1], args[3]>>
    /\ args[1] # args[2] /\ args[2] # args[3]

\* C3: the pairs theta_sort returns have non-decreasing angles: each angle is
\* <= the next one, as doubles compare.
ThetaSortAscending ==
    pc \in {"print", "done"} =>
        \A k \in 1..(Len(vecpairs) - 1) :
            ThetaLeq(ThetaOf(vecpairs[k]), ThetaOf(vecpairs[k + 1]))

\* what does hold of the order: the angles that are numbers never decrease when
\* no angle is not-a-number
ThetaSortAscendingUnlessNaN ==
    pc \in {"print", "done"} =>
        \/ \E k \in 1..Len(vecpairs) : IsNaN(ThetaOf(vecpairs[k]))
        \/ \A k \in 1..(Len(vecpairs) - 1) :
              ThetaLeq(ThetaOf(vecpairs[k]), ThetaOf(vecpairs[k + 1]))

\* C4: theta_sort is stable: its result is the enumeration of pairwise_elts
\* reordered so that pairs of equal angle keep their enumeration order.
ThetaSortStable ==
    pc \in {"print", "done"} =>
        LET e == pairwise_elts(vecs)
            n == Len(e)
        IN  \E p \in Permutations(1..n) :
                /\ \A k \in 1..n : vecpairs[k] = e[p[k]]
                /\ \A a, b \in 1..n :
                      a < b /\ ThetaEq(ThetaOf(e[p[a]]), ThetaOf(e[p[b]]))
                          => p[a] < p[b]

\* C5: dot and theta on vectors of two lengths throw the logic_error of
\* assert_compatible and return no value; on vectors of one length dot returns
\* the sum of a[i]*b[i] over all i (0 for two empty vectors) and theta returns.
RECURSIVE SumOfProducts(_, _, _)
SumOfProducts(a, b, n) ==
    IF n = 0 THEN 0 ELSE SumOfProducts(a, b, n - 1) + a[n] * b[n]

DotThetaRequireSameLength ==
    call \in {"dot", "theta"} =>
        LET a == args[1]
            b == args[2]
        IN  IF Len(a) # Len(b)
            THEN ret.exc = MismatchedDvec /\ ret.exc.kind = "logic_error"
            ELSE /\ ret.exc = NoError
                 /\ call = "dot" => ret.val = SumOfProducts(a, b, Len(a))
                 /\ call = "dot" /\ a = <<>> => ret.val = 0

DotThetaRequireSameLengthWitness ==
    /\ call = "dot"
    /\ Len(args[1]) = 2
    /\ Len(args[2]) = 1
    /\ ret.exc = MismatchedDvec


\* C6: when ingest_dvecs returns it has made one vector of every line, in line
\* order, the k-th vector holding the numeric tokens of the k-th line in token
\* order; an empty input gives the empty sequence and no error.
NumericTokens(l) ==
    LET nums == SelectSeq(l, LAMBDA t : t.num)
    IN  [i \in 1..Len(nums) |-> nums[i].val]

IngestHoldsNumericTokens ==
    Returned =>
        /\ err = NoError
        /\ Len(vecs) = Len(consumed)
        /\ \A k \in 1..Len(vecs) : vecs[k] = NumericTokens(consumed[k])

\* C6, amended: the k-th vector holds the numeric tokens of the k-th line that
\* come before its first non-numeric token (all of them when it has none).
LeadingNumericTokens(l) ==
    LET m == CHOOSE n \in 0..Len(l) :
                 /\ \A i \in 1..n : l[i].num
                 /\ n < Len(l) => ~l[n + 1].num
    IN  [i \in 1..m |-> l[i].val]

IngestHoldsLeadingNumericTokens ==
    /\ Len(output) = IF IngestThrew THEN Len(consumed) - 1 ELSE Len(consumed)
    /\ Returned =>
        /\ err = NoError
        /\ vecs = output
        /\ Len(vecs) = Len(consumed)
        /\ \A k \in 1..Len(vecs) : vecs[k] = LeadingNumericTokens(consumed[k])

IngestHoldsLeadingNumericTokensWitness ==
    /\ pc = "sort"
    /\ consumed = << <<Num(1), Junk>>, <<Num(0)>>, <<Num(0), Junk>> >>
    /\ vecs = << <<1>>, <<0>>, <<0>> >>

PairwiseEltsNeverEqual ==
    call = "pairwise_elts" =>
        \A k \in 1..Len(ret.val) : ret.val[k][1] # ret.val[k][2]

\* C8, amended: no pair pairwise_elts returns is made of one position of the
\* input twice, so a pair has first == second only when the input holds that
\* vector value at two positions; an input of different vectors gives none.
PairwiseEltsNeverSamePosition ==
    call = "pairwise_elts" =>
        /\ Len(ret.pos) = Len(ret.val)
        /\ \A k \in 1..Len(ret.val) :
              /\ ret.pos[k][1] # ret.pos[k][2]
              /\ ret.val[k] = <<args[ret.pos[k][1]], args[ret.pos[k][2]]>>
        /\ (\A i, j \in 1..Len(args) : i # j => args[i] # args[j])
              <=> \A k \in 1..Len(ret.val) : ret.val[k][1] # ret.val[k][2]

PairwiseEltsNeverSamePositionWitness ==
    /\ call = "pairwise_elts"
    /\ Len(args) = 3
    /\ args[1] = args[3]
    /\ args[1] # args[2]
    /\ ret.val[2][1] = ret.val[2][2]

\* C9: what theta_sort returns is a permutation of what pairwise_elts returns
\* on the same vectors: N*(N-1)/2 pairs, the same pairs as often, and the
\* vectors themselves are as ingest_dvecs returned them.
ThetaSortPermutes ==
    pc \in {"print", "done"} =>
        LET e == pairwise_elts(vecs)
        IN  /\ Len(vecpairs) = Len(e)
            /\ Len(vecpairs) = Choose2(Len(vecs))
            /\ \A x \in Range(e) \cup Range(vecpairs) : Count(e, x) = Count(vecpairs, x)
            /\ vecs = Parsed
            /\ SameLength(vecs)

ThetaSortPermutesWitness ==
    /\ pc = "print"
    /\ Len(vecpairs) = 3
    /\ vecpairs # pairwise_elts(vecs)
    /\ \E k \in 1..3 : IsNaN(ThetaOf(vecpairs[k]))

\* C10: a run of main goes through open, ingest, sort, print in that order; an
\* error ends it before any result line is written, so a run that has ended
\* has written all N*(N-1)/2 lines or none; after ingest_dvecs has returned
\* every pair has vectors of one length and the logic_error of dot and theta
\* is never thrown.
Stages == <<"open", "ingest", "sort", "print", "done">>

RunAllOrNothing ==
    /\ \E n \in 1..Len(Stages) :
          \/ log = SubSeq(Stages, 1, n) /\ pc = Stages[n] /\ err = NoError
          \/ /\ n < Len(Stages)
             /\ log = Append(SubSeq(Stages, 1, n), "aborted")
             /\ pc = "aborted"
             /\ err # NoError
    /\ err # NoError => printed = <<>>
    /\ printed # <<>> => pc \in {"print", "done"}
    /\ Len(printed) <= Len(vecpairs)
    /\ (pc \in {"print", "done"}) =>
          /\ Len(vecpairs) = Choose2(Len(vecs))
          /\ \A k \in 1..Len(printed) :
                printed[k] = <<vecpairs[k][1], vecpairs[k][2], ThetaOf(vecpairs[k])>>
    /\ pc = "done" => Len(printed) = Choose2(Len(vecs))
    /\ pc = "aborted" => printed = <<>>
    /\ \A k \in 1..Len(vecpairs) : Len(vecpairs[k][1]) = Len(vecpairs[k][2])
    /\ err.kind # "logic_error"

RunAllOrNothingWitness ==
    /\ pc = "done"
    /\ Len(vecs) = 3
    /\ Len(printed) = 3

====
